---- MODULE Spec2Model ----
(***************************************************************************)
(* A model of src/src/main.rs (jroimartin/pong): the Pong match state      *)
(* machine, the ball and racket physics and the collision resolution.      *)
(*                                                                         *)
(* Units.  The f32 quantities of the source are held as exact integers:    *)
(*   - lengths in tenths of a pixel, so that DX = 0.1 px is 1;             *)
(*   - times in tenths of a second, so that WIN_SCREEN_SECS = 1 s is 10;   *)
(*   - speeds in length units per time unit (500 px/s is 500; 150 px/s is  *)
(*     150), the acceleration in length units per time unit squared        *)
(*     (10 px/s^2 is 1);                                                   *)
(*   - a direction component d is held as d * DirOne, where DirOne is the  *)
(*     racket height, the denominator of the rebound formula.              *)
(* Arithmetic is exact except for the product dir.1 * delta in Ball::fly,  *)
(* which is rounded down to a length unit; f32 rounding is not modelled.   *)
(***************************************************************************)
EXTENDS Integers, FiniteSets, Sequences, TLC

\* ------------------------------------------------------------------------
\* Program constants (main.rs:9-24, 190), in the units above.
WINDOW_WIDTH == 8000
WINDOW_HEIGHT == 6000
RACKET_SIZE == <<200, 1000>>
RACKET_MARGIN == 400
RACKET_SPEED == 500
BALL_SIZE == 200
BALL_INIT_SPEED == 150
BALL_ACCEL == 1
WIN_SCORE == 5
WIN_SCREEN_SECS == 10
DX == 1

\* The value that stands for a direction component of 1.0.
DirOne == RACKET_SIZE[2]

\* ------------------------------------------------------------------------
\* Bounds of the model.
\* Frame times the environment may report (get_frame_time), in time units:
\* 0, a lag of LagFt and a longer lag of LongLagFt.
LagFt == 22
LongLagFt == 27
\* The clock (get_time) stops the model at MaxTime; a lag of LagFt occurs
\* only while the clock is at most MaxLagTime.
MaxTime == 165
MaxLagTime == 50

FrameTimes == {0, LagFt, LongLagFt}

\* ------------------------------------------------------------------------
\* enum Side
Side == {"Left", "Right"}
NoSide == "None"

toggle(side) == IF side = "Left" THEN "Right" ELSE "Left"

\* .0 / .1 of a pair indexed by side
Idx(side) == IF side = "Left" THEN 1 ELSE 2

\* enum Input
Up(side) == [kind |-> "Up", side |-> side]
Down(side) == [kind |-> "Down", side |-> side]
Quit == [kind |-> "Quit", side |-> NoSide]
Unknown == [kind |-> "Unknown", side |-> NoSide]
Input == {Up("Left"), Down("Left"), Up("Right"), Down("Right"), Quit, Unknown}

\* enum PongState
NewRound(side) == [tag |-> "NewRound", side |-> side, at |-> 0]
Playing == [tag |-> "Playing", side |-> NoSide, at |-> 0]
WallBounce == [tag |-> "WallBounce", side |-> NoSide, at |-> 0]
RacketBounce == [tag |-> "RacketBounce", side |-> NoSide, at |-> 0]
Point(side) == [tag |-> "Point", side |-> side, at |-> 0]
Winner(side, at) == [tag |-> "Winner", side |-> side, at |-> at]
Exit == [tag |-> "Exit", side |-> NoSide, at |-> 0]

\* ------------------------------------------------------------------------
\* f32 helpers
Abs(x) == IF x < 0 THEN -x ELSE x
Max(a, b) == IF a > b THEN a ELSE b
Min(a, b) == IF a < b THEN a ELSE b
Clamp(x, lo, hi) == IF x < lo THEN lo ELSE IF x > hi THEN hi ELSE x

\* The outcomes of the closure rnddir of Ball::new: the low bit of the
\* microsecond clock, mapped to -1 or 1.
RndDir == {-1, 1}

\* ------------------------------------------------------------------------
\* struct Racket
RacketNew(side) ==
    LET pos_x == IF side = "Left" THEN RACKET_MARGIN
                 ELSE WINDOW_WIDTH - RACKET_MARGIN - RACKET_SIZE[1]
        pos_y == WINDOW_HEIGHT \div 2 - RACKET_SIZE[2] \div 2
    IN [side |-> side, pos |-> <<pos_x, pos_y>>]

\* slide, had it kept the racket inside the court at each move.
slide_clamped(racket, speed, ft) ==
    [racket EXCEPT !.pos = <<racket.pos[1],
                             IF racket.pos[2] + speed * ft < 0 THEN 0
                             ELSE IF racket.pos[2] + speed * ft > WINDOW_HEIGHT - RACKET_SIZE[2]
                             THEN WINDOW_HEIGHT - RACKET_SIZE[2]
                             ELSE racket.pos[2] + speed * ft>>]

slide(racket, speed, ft) ==
    [racket EXCEPT !.pos = <<racket.pos[1], racket.pos[2] + speed * ft>>]

\* ------------------------------------------------------------------------
\* struct Ball
\* Ball::new, had it served away from the side it is given.
BallNewAway(side, rx, ry) ==
    LET x == WINDOW_WIDTH \div 2 - BALL_SIZE \div 2
        y == WINDOW_HEIGHT \div 2 - BALL_SIZE \div 2
        dir_x == IF side = "Left" THEN DirOne
                 ELSE IF side = "Right" THEN -DirOne
                 ELSE rx * DirOne
    IN [pos |-> <<x, y>>, dir |-> <<dir_x, ry * DirOne>>, speed |-> BALL_INIT_SPEED]

\* side is a Side or NoSide (None); rx and ry are the two results of rnddir.
BallNew(side, rx, ry) ==
    LET x == WINDOW_WIDTH \div 2 - BALL_SIZE \div 2
        y == WINDOW_HEIGHT \div 2 - BALL_SIZE \div 2
        dir_x == IF side = "Left" THEN -DirOne
                 ELSE IF side = "Right" THEN DirOne
                 ELSE rx * DirOne
    IN [pos |-> <<x, y>>, dir |-> <<dir_x, ry * DirOne>>, speed |-> BALL_INIT_SPEED]

\* Ball::fly, had it moved the ball by a fixed step per frame.
fly_fixed_step(b, ft) ==
    LET delta == b.speed
    IN [pos |-> <<b.pos[1] + (b.dir[1] * delta) \div DirOne,
                  b.pos[2] + (b.dir[2] * delta) \div DirOne>>,
        dir |-> b.dir,
        speed |-> b.speed + ft * BALL_ACCEL]

fly(b, ft) ==
    LET delta == b.speed * ft
    IN [pos |-> <<b.pos[1] + (b.dir[1] * delta) \div DirOne,
                  b.pos[2] + (b.dir[2] * delta) \div DirOne>>,
        dir |-> b.dir,
        speed |-> b.speed + ft * BALL_ACCEL]

\* ------------------------------------------------------------------------
\* Rect of macroquad, as used at main.rs:216-246.
Rect(x, y, w, h) == [x |-> x, y |-> y, w |-> w, h |-> h]
NoRect == [x |-> 0, y |-> 0, w |-> -1, h |-> -1]

\* Rect::intersect: None when the rectangles are strictly apart; rectangles
\* that only touch intersect in a rectangle of width or height 0.
intersect(a, b) ==
    LET left == Max(a.x, b.x)
        top == Max(a.y, b.y)
        right == Min(a.x + a.w, b.x + b.w)
        bottom == Min(a.y + a.h, b.y + b.h)
    IN IF right < left \/ bottom < top THEN NoRect
       ELSE Rect(left, top, right - left, bottom - top)

\* Twice rect.center().y, which keeps the half units exact.
Center2Y(r) == 2 * r.y + r.h

\* ------------------------------------------------------------------------
\* struct Pong: p is a record of the fields rackets, scores, ball, state.
\* reset, had it kept the scores of the match just won.
reset_keep_scores(p, rx, ry) ==
    [rackets |-> <<RacketNew("Left"), RacketNew("Right")>>,
     ball |-> BallNew(NoSide, rx, ry),
     scores |-> p.scores,
     state |-> Playing]

reset(p, rx, ry) ==
    [rackets |-> <<RacketNew("Left"), RacketNew("Right")>>,
     ball |-> BallNew(NoSide, rx, ry),
     scores |-> <<0, 0>>,
     state |-> Playing]

ClampRacket(racket) ==
    [racket EXCEPT !.pos = <<racket.pos[1],
                             Clamp(racket.pos[2], 0, WINDOW_HEIGHT - RACKET_SIZE[2])>>]

\* update_racket_collisions, had it left the rackets where slide put them.
update_racket_collisions_none(p) == p

update_racket_collisions(p) ==
    [p EXCEPT !.rackets = <<ClampRacket(p.rackets[1]), ClampRacket(p.rackets[2])>>]

\* The contact slab of a racket (main.rs:218-236).
RacketRect(racket) ==
    IF racket.side = "Left"
    THEN Rect(racket.pos[1] + RACKET_SIZE[1] - DX, racket.pos[2], DX * 2, RACKET_SIZE[2])
    ELSE Rect(racket.pos[1] - DX, racket.pos[2], DX * 2, RACKET_SIZE[2])

\* The rebound, had it taken the centre of the ball for the contact point.
ReboundBallCentre(p, racket, racket_rect, rect) ==
    [p EXCEPT !.ball.dir =
                  <<IF racket.side = "Left" THEN Abs(p.ball.dir[1]) ELSE -Abs(p.ball.dir[1]),
                    (((2 * p.ball.pos[2] + BALL_SIZE) - Center2Y(racket_rect)) * DirOne)
                        \div racket_rect.h>>,
              !.state = RacketBounce]

\* The rebound of main.rs:242-247: rect is the intersection of the slab and
\* the ball.  dir.1 = (rect.center().y - racket_rect.center().y) /
\* (racket_rect.h * 0.5), held times DirOne.
Rebound(p, racket, racket_rect, rect) ==
    [p EXCEPT !.ball.dir =
                  <<IF racket.side = "Left" THEN Abs(p.ball.dir[1]) ELSE -Abs(p.ball.dir[1]),
                    ((Center2Y(rect) - Center2Y(racket_rect)) * DirOne) \div racket_rect.h>>,
              !.state = RacketBounce]

\* The loop body, had it tested the slab whatever the direction of the ball.
RacketStepAnyDirection(p, racket, ball_rect) ==
    LET racket_rect == RacketRect(racket)
        rect == intersect(racket_rect, ball_rect)
    IN IF rect = NoRect THEN p
       ELSE Rebound(p, racket, racket_rect, rect)

\* One iteration of the loop over the rackets (main.rs:217-248).
RacketStep(p, racket, ball_rect) ==
    IF racket.side = "Left" /\ p.ball.dir[1] > 0 THEN p
    ELSE IF racket.side = "Right" /\ p.ball.dir[1] < 0 THEN p
    ELSE LET racket_rect == RacketRect(racket)
             rect == intersect(racket_rect, ball_rect)
         IN IF rect = NoRect THEN p
            ELSE Rebound(p, racket, racket_rect, rect)

\* update_ball_collisions, had a wall turned the ball without putting it
\* back inside the court.
update_ball_collisions_unclamped(p) ==
    IF p.ball.pos[1] < 0 THEN [p EXCEPT !.state = Point("Right")]
    ELSE IF p.ball.pos[1] + BALL_SIZE > WINDOW_WIDTH THEN [p EXCEPT !.state = Point("Left")]
    ELSE IF p.ball.pos[2] < 0
    THEN [p EXCEPT !.ball.dir = <<p.ball.dir[1], Abs(p.ball.dir[2])>>,
                   !.state = WallBounce]
    ELSE IF p.ball.pos[2] + BALL_SIZE > WINDOW_HEIGHT
    THEN [p EXCEPT !.ball.dir = <<p.ball.dir[1], -Abs(p.ball.dir[2])>>,
                   !.state = WallBounce]
    ELSE LET ball_rect == Rect(p.ball.pos[1], p.ball.pos[2], BALL_SIZE, BALL_SIZE)
         IN RacketStep(RacketStep(p, p.rackets[1], ball_rect), p.rackets[2], ball_rect)

\* update_ball_collisions, had the right edge been tested on the left side of
\* the ball.
update_ball_collisions_late_edge(p) ==
    IF p.ball.pos[1] < 0 THEN [p EXCEPT !.state = Point("Right")]
    ELSE IF p.ball.pos[1] > WINDOW_WIDTH THEN [p EXCEPT !.state = Point("Left")]
    ELSE IF p.ball.pos[2] < 0
    THEN [p EXCEPT !.ball.pos = <<p.ball.pos[1], 0>>,
                   !.ball.dir = <<p.ball.dir[1], Abs(p.ball.dir[2])>>,
                   !.state = WallBounce]
    ELSE IF p.ball.pos[2] + BALL_SIZE > WINDOW_HEIGHT
    THEN [p EXCEPT !.ball.pos = <<p.ball.pos[1], WINDOW_HEIGHT - BALL_SIZE>>,
                   !.ball.dir = <<p.ball.dir[1], -Abs(p.ball.dir[2])>>,
                   !.state = WallBounce]
    ELSE LET ball_rect == Rect(p.ball.pos[1], p.ball.pos[2], BALL_SIZE, BALL_SIZE)
         IN RacketStep(RacketStep(p, p.rackets[1], ball_rect), p.rackets[2], ball_rect)

\* update_ball_collisions, had it tested the walls before the court edges.
update_ball_collisions_wall_first(p) ==
    IF p.ball.pos[2] < 0
    THEN [p EXCEPT !.ball.pos = <<p.ball.pos[1], 0>>,
                   !.ball.dir = <<p.ball.dir[1], Abs(p.ball.dir[2])>>,
                   !.state = WallBounce]
    ELSE IF p.ball.pos[2] + BALL_SIZE > WINDOW_HEIGHT
    THEN [p EXCEPT !.ball.pos = <<p.ball.pos[1], WINDOW_HEIGHT - BALL_SIZE>>,
                   !.ball.dir = <<p.ball.dir[1], -Abs(p.ball.dir[2])>>,
                   !.state = WallBounce]
    ELSE IF p.ball.pos[1] < 0 THEN [p EXCEPT !.state = Point("Right")]
    ELSE IF p.ball.pos[1] + BALL_SIZE > WINDOW_WIDTH THEN [p EXCEPT !.state = Point("Left")]
    ELSE LET ball_rect == Rect(p.ball.pos[1], p.ball.pos[2], BALL_SIZE, BALL_SIZE)
         IN RacketStep(RacketStep(p, p.rackets[1], ball_rect), p.rackets[2], ball_rect)

update_ball_collisions(p) ==
    IF p.ball.pos[1] < 0 THEN [p EXCEPT !.state = Point("Right")]
    ELSE IF p.ball.pos[1] + BALL_SIZE > WINDOW_WIDTH THEN [p EXCEPT !.state = Point("Left")]
    ELSE IF p.ball.pos[2] < 0
    THEN [p EXCEPT !.ball.pos = <<p.ball.pos[1], 0>>,
                   !.ball.dir = <<p.ball.dir[1], Abs(p.ball.dir[2])>>,
                   !.state = WallBounce]
    ELSE IF p.ball.pos[2] + BALL_SIZE > WINDOW_HEIGHT
    THEN [p EXCEPT !.ball.pos = <<p.ball.pos[1], WINDOW_HEIGHT - BALL_SIZE>>,
                   !.ball.dir = <<p.ball.dir[1], -Abs(p.ball.dir[2])>>,
                   !.state = WallBounce]
    ELSE LET ball_rect == Rect(p.ball.pos[1], p.ball.pos[2], BALL_SIZE, BALL_SIZE)
         IN RacketStep(RacketStep(p, p.rackets[1], ball_rect), p.rackets[2], ball_rect)

\* update_score, had it credited the point to the other side.
update_score_other(p, point_side, t) ==
    LET i == Idx(toggle(point_side))
        score == p.scores[i] + 1
    IN [p EXCEPT !.scores[i] = score,
                 !.state = IF score >= WIN_SCORE THEN Winner(point_side, t)
                           ELSE NewRound(toggle(point_side))]

\* update_score, had it asked for more than WIN_SCORE points.
update_score_gt(p, point_side, t) ==
    LET i == Idx(point_side)
        score == p.scores[i] + 1
    IN [p EXCEPT !.scores[i] = score,
                 !.state = IF score > WIN_SCORE THEN Winner(point_side, t)
                           ELSE NewRound(toggle(point_side))]

\* t is the value of get_time().
update_score(p, point_side, t) ==
    LET i == Idx(point_side)
        score == p.scores[i] + 1
    IN [p EXCEPT !.scores[i] = score,
                 !.state = IF score >= WIN_SCORE THEN Winner(point_side, t)
                           ELSE NewRound(toggle(point_side))]

\* The arms of the match of Pong::update (main.rs:272-306).
\* The NewRound arm, had it reset the match before serving.
UpdateNewRoundReset(p, side, rx, ry) ==
    [reset(p, rx, ry) EXCEPT !.ball = BallNew(side, rx, ry)]

\* The NewRound arm, had the new ball kept the speed of the old one.
UpdateNewRoundKeepSpeed(p, side, rx, ry) ==
    [p EXCEPT !.ball = [BallNew(side, rx, ry) EXCEPT !.speed = p.ball.speed],
              !.state = Playing]

UpdateNewRound(p, side, rx, ry) ==
    [p EXCEPT !.ball = BallNew(side, rx, ry), !.state = Playing]

SlideIf(racket, cond, speed, ft) == IF cond THEN slide(racket, speed, ft) ELSE racket

UpdatePlaying(p, inputs, ft) ==
    LET r0 == SlideIf(SlideIf(p.rackets[1], Up("Left") \in inputs, -RACKET_SPEED, ft),
                      Down("Left") \in inputs, RACKET_SPEED, ft)
        r1 == SlideIf(SlideIf(p.rackets[2], Up("Right") \in inputs, -RACKET_SPEED, ft),
                      Down("Right") \in inputs, RACKET_SPEED, ft)
        moved == update_racket_collisions([p EXCEPT !.rackets = <<r0, r1>>])
    IN update_ball_collisions([moved EXCEPT !.ball = fly(moved.ball, ft)])

\* The WallBounce | RacketBounce arm, had it not gone back to Playing.
UpdateBounceStay(p) == p

\* The WallBounce | RacketBounce arm, had a bounce sped the ball up.
UpdateBounceFaster(p) ==
    [p EXCEPT !.state = Playing, !.ball.speed = p.ball.speed + BALL_ACCEL]

UpdateBounce(p) == [p EXCEPT !.state = Playing]

\* The Winner arm, had it reset on either condition.
UpdateWinnerOr(p, inputs, t, rx, ry) ==
    IF t - p.state.at > WIN_SCREEN_SECS \/ inputs # {} THEN reset(p, rx, ry) ELSE p

UpdateWinner(p, inputs, t, rx, ry) ==
    IF t - p.state.at > WIN_SCREEN_SECS /\ inputs # {} THEN reset(p, rx, ry) ELSE p

\* Pong::update, had it looked for Quit after the match on the state.
update_quit_last(p, inputs, ft, t, rx, ry) ==
    LET q == CASE p.state.tag = "NewRound" -> UpdateNewRound(p, p.state.side, rx, ry)
               [] p.state.tag = "Playing" -> UpdatePlaying(p, inputs, ft)
               [] p.state.tag \in {"WallBounce", "RacketBounce"} -> UpdateBounce(p)
               [] p.state.tag = "Point" -> update_score(p, p.state.side, t)
               [] p.state.tag = "Winner" -> UpdateWinner(p, inputs, t, rx, ry)
               [] p.state.tag = "Exit" -> p
    IN IF Quit \in inputs THEN [q EXCEPT !.state = Exit] ELSE q

\* Pong::update, had it taken an Unknown intent for a Quit.
update_unknown_quits(p, inputs, ft, t, rx, ry) ==
    LET q == IF Quit \in inputs \/ Unknown \in inputs THEN [p EXCEPT !.state = Exit] ELSE p
    IN CASE q.state.tag = "NewRound" -> UpdateNewRound(q, q.state.side, rx, ry)
         [] q.state.tag = "Playing" -> UpdatePlaying(q, inputs, ft)
         [] q.state.tag \in {"WallBounce", "RacketBounce"} -> UpdateBounce(q)
         [] q.state.tag = "Point" -> update_score(q, q.state.side, t)
         [] q.state.tag = "Winner" -> UpdateWinner(q, inputs, t, rx, ry)
         [] q.state.tag = "Exit" -> q

\* Pong::update.  inputs is the set of the intents read_inputs returns (the
\* code only asks contains and is_empty of it), ft the frame time, t the
\* clock, rx and ry the outcomes of rnddir.
update(p, inputs, ft, t, rx, ry) ==
    LET q == IF Quit \in inputs THEN [p EXCEPT !.state = Exit] ELSE p
    IN CASE q.state.tag = "NewRound" -> UpdateNewRound(q, q.state.side, rx, ry)
         [] q.state.tag = "Playing" -> UpdatePlaying(q, inputs, ft)
         [] q.state.tag \in {"WallBounce", "RacketBounce"} -> UpdateBounce(q)
         [] q.state.tag = "Point" -> update_score(q, q.state.side, t)
         [] q.state.tag = "Winner" -> UpdateWinner(q, inputs, t, rx, ry)
         [] q.state.tag = "Exit" -> q

\* Pong::play_sounds: the cue requested for a state.
play_sounds(st) ==
    CASE st.tag = "WallBounce" -> "wall"
      [] st.tag = "RacketBounce" -> "racket"
      [] st.tag = "Point" -> "point"
      [] OTHER -> "none"

\* ------------------------------------------------------------------------
\* State: the fields of Pong, the clock, and the cue of the last frame.
VARIABLES rackets, scores, ball, state, now, cue

vars == <<rackets, scores, ball, state, now, cue>>

Self == [rackets |-> rackets, scores |-> scores, ball |-> ball, state |-> state]

\* Pong::new
Init ==
    /\ rackets = <<RacketNew("Left"), RacketNew("Right")>>
    /\ \E rx \in RndDir, ry \in RndDir : ball = BallNew(NoSide, rx, ry)
    /\ scores = <<0, 0>>
    /\ state = Playing
    /\ now = 0
    /\ cue = "none"

\* rnddir is called by Ball::new alone, which runs in the NewRound and Winner
\* arms alone: elsewhere no outcome is drawn.
RndOutcomes(st) == IF st.tag \in {"NewRound", "Winner"} THEN RndDir ELSE {1}

\* The loop body, had the loop not been left on Exit.
TickNoBreak(ft) ==
    /\ now + ft <= MaxTime
    /\ \E inputs \in SUBSET Input, rx \in RndOutcomes(state), ry \in RndOutcomes(state) :
          LET n == update(Self, inputs, ft, now + ft, rx, ry)
          IN /\ rackets' = n.rackets
             /\ scores' = n.scores
             /\ ball' = n.ball
             /\ state' = n.state
             /\ cue' = play_sounds(n.state)
    /\ now' = now + ft

\* One iteration of the loop of main (main.rs:430-462): update, leave the
\* loop on Exit, else draw and play the sounds.
Tick(ft) ==
    /\ state.tag # "Exit"
    /\ now + ft <= MaxTime
    /\ \E inputs \in SUBSET Input, rx \in RndOutcomes(state), ry \in RndOutcomes(state) :
          LET n == update(Self, inputs, ft, now + ft, rx, ry)
          IN /\ rackets' = n.rackets
             /\ scores' = n.scores
             /\ ball' = n.ball
             /\ state' = n.state
             /\ cue' = IF n.state.tag = "Exit" THEN "none" ELSE play_sounds(n.state)
    /\ now' = now + ft

\* The frames of a run: frames of no duration and long lags at any time, the
\* shorter lag early in the run.
Frame == \E ft \in {0, LongLagFt} : Tick(ft)

LagFrame == Tick(LagFt) /\ now' <= MaxLagTime

Next == Frame \/ LagFrame

Spec == Init /\ [][Next]_vars

\* ------------------------------------------------------------------------
\* Pong::update_ball_collisions on its own, from the states in which
\* Pong::update calls it: Playing, the rackets within their bounds, the ball
\* where Ball::fly left it.  The rackets and the ball are drawn from grids
\* around the contact slabs: ball heights are given relative to the racket
\* (touching its top edge, centred on it, touching its bottom edge, apart).
RacketYs == {0, 1300, WINDOW_HEIGHT - RACKET_SIZE[2]}
BallDXs == {-2 * DX, -DX, 0, DX, 2 * DX}
BallDYs == {-BALL_SIZE - DX, -BALL_SIZE, -BALL_SIZE \div 2,
            RACKET_SIZE[2] \div 2 - BALL_SIZE \div 2,
            RACKET_SIZE[2] - BALL_SIZE \div 2, RACKET_SIZE[2], RACKET_SIZE[2] + DX}

InitCollide ==
    /\ \E yl \in RacketYs, yr \in RacketYs :
          rackets = <<[RacketNew("Left") EXCEPT !.pos[2] = yl],
                      [RacketNew("Right") EXCEPT !.pos[2] = yr]>>
    /\ \E side \in Side, dx \in BallDXs, dy \in BallDYs, dir_x \in RndDir, dir_y \in RndDir :
          LET slab == RacketRect(rackets[Idx(side)])
              x == IF side = "Left" THEN slab.x + slab.w + dx
                   ELSE slab.x - BALL_SIZE + dx
          IN ball = [pos |-> <<x, slab.y + dy>>,
                     dir |-> <<dir_x * DirOne, dir_y * DirOne>>,
                     speed |-> BALL_INIT_SPEED]
    /\ scores = <<0, 0>>
    /\ state = Playing
    /\ now = 0
    /\ cue = "none"

Collide ==
    /\ state.tag = "Playing"
    /\ LET n == update_ball_collisions(Self)
       IN /\ rackets' = n.rackets
          /\ scores' = n.scores
          /\ ball' = n.ball
          /\ state' = n.state
          /\ cue' = play_sounds(n.state)
    /\ UNCHANGED now

SpecCollide == InitCollide /\ [][Collide]_vars

\* ------------------------------------------------------------------------
\* The state at the end of a tick that starts in the current state, with the
\* intents inputs, the frame time ft and the outcomes rx, ry of rnddir.
After(inputs, ft, rx, ry) == update(Self, inputs, ft, now + ft, rx, ry)

InputSets == SUBSET Input
QuitFree == {inputs \in InputSets : Quit \notin inputs}
Draws == RndOutcomes(state)

\* A ball as Ball::new makes it; at 0-0 with the clock past 0 only a reset
\* leaves one (a ball in play has gained speed).
FreshBall == ball \in {BallNew(NoSide, rx, ry) : rx \in RndDir, ry \in RndDir}

\* C1: a side's score rises only in a tick that starts in Point(side) with no
\* Quit intent; in that tick it rises by exactly 1, the other score is kept
\* and the state leaves Point, so an entry into Point gives one increment.
C1_ScoreOnlyInPoint ==
    \A inputs \in InputSets, ft \in FrameTimes, rx \in Draws, ry \in Draws :
        LET n == After(inputs, ft, rx, ry)
        IN \A side \in Side :
              /\ n.scores[Idx(side)] > scores[Idx(side)]
                    => /\ state = Point(side)
                       /\ Quit \notin inputs
              /\ (state = Point(side) /\ Quit \notin inputs)
                    => /\ n.scores[Idx(side)] = scores[Idx(side)] + 1
                       /\ n.scores[Idx(toggle(side))] = scores[Idx(toggle(side))]
                       /\ n.state.tag # "Point"

\* A round that follows two points of Left and one of Right.
C1_Witness == state.tag = "NewRound" /\ scores = <<2, 1>>

\* C2: no tick lowers a score, except the reset of a match, which happens
\* only in a tick that starts in Winner and sets both scores to 0.
C2_ScoresNeverDecrease ==
    \A inputs \in InputSets, ft \in FrameTimes, rx \in Draws, ry \in Draws :
        LET n == After(inputs, ft, rx, ry)
        IN \A i \in {1, 2} :
              /\ n.scores[i] >= scores[i] \/ (state.tag = "Winner" /\ n.scores = <<0, 0>>)

\* A match was won and reset: the scores fell from WIN_SCORE to 0.
C2_Witness == state.tag = "Playing" /\ scores = <<0, 0>> /\ now > 0 /\ FreshBall

\* C3: a tick that starts in Point(side) with no Quit intent ends in
\* NewRound(opposite side) when the incremented score is below WIN_SCORE and
\* in Winner(side, now) when it has reached WIN_SCORE.
C3_PointTransition ==
    state.tag = "Point" =>
        \A inputs \in QuitFree, ft \in FrameTimes :
            LET n == After(inputs, ft, 1, 1)
                side == state.side
            IN n.state = IF scores[Idx(side)] + 1 < WIN_SCORE
                         THEN NewRound(toggle(side))
                         ELSE Winner(side, now + ft)

\* Left has won 5 to 0: every earlier Point(Left) led to NewRound(Right).
C3_Witness == state.tag = "Winner" /\ state.side = "Left" /\ scores = <<WIN_SCORE, 0>>

\* C4: in Winner(side, at) a tick with no Quit intent changes nothing while
\* the clock has not passed at + WIN_SCREEN_SECS or the intent set is empty;
\* otherwise it resets the match: Playing, scores 0-0, rackets re-centred, a
\* new ball.
C4_WinnerHoldThenReset ==
    state.tag = "Winner" =>
        \A inputs \in QuitFree, ft \in FrameTimes, rx \in RndDir, ry \in RndDir :
            LET n == After(inputs, ft, rx, ry)
            IN IF (now + ft) - state.at <= WIN_SCREEN_SECS \/ inputs = {}
               THEN n = Self
               ELSE /\ n.state = Playing
                    /\ n.scores = <<0, 0>>
                    /\ n.rackets = <<RacketNew("Left"), RacketNew("Right")>>
                    /\ n.ball = BallNew(NoSide, rx, ry)

\* After a reset: a new ball and centred rackets at 0-0, the hold having
\* passed since the fifth point.
C4_Witness ==
    /\ state.tag = "Playing" /\ scores = <<0, 0>> /\ FreshBall
    /\ now > WIN_SCORE * LagFt + WIN_SCREEN_SECS
    /\ rackets = <<RacketNew("Left"), RacketNew("Right")>>

\* C5: a tick whose intent set holds Quit ends in Exit from every state and
\* with any other intents, and changes neither scores, rackets nor ball.
C5_QuitPreempts ==
    \A inputs \in InputSets \ QuitFree, ft \in FrameTimes, rx \in Draws, ry \in Draws :
        LET n == After(inputs, ft, rx, ry)
        IN /\ n.state = Exit
           /\ n.scores = scores
           /\ n.rackets = rackets
           /\ n.ball = ball

\* The loop was left by a Quit after at least one point was played.
C5_Witness == state.tag = "Exit" /\ scores # <<0, 0>>

InsideVertically(b) == 0 <= b.pos[2] /\ b.pos[2] + BALL_SIZE <= WINDOW_HEIGHT

\* C7 as stated: after a tick that starts in Playing the ball lies within
\* the vertical bounds of the court, whatever state the tick ends in.
C7_BallInsideVertically ==
    [][(state.tag = "Playing" /\ state'.tag # "Exit")
          => /\ state'.tag \in {"Playing", "WallBounce", "RacketBounce", "Point"}
             /\ InsideVertically(ball')]_vars

\* C7, amended: after a tick that starts in Playing and ends in Playing,
\* WallBounce or RacketBounce the ball lies within the vertical bounds; a
\* tick that ends in Point leaves the ball where Ball::fly put it, unclamped.
C7_BallInsideUnlessPoint ==
    state.tag = "Playing" =>
        \A inputs \in QuitFree, ft \in FrameTimes :
            LET n == After(inputs, ft, 1, 1)
            IN /\ n.state.tag \in {"Playing", "WallBounce", "RacketBounce", "Point"}
               /\ n.state.tag # "Point" => InsideVertically(n.ball)
               /\ n.state.tag = "Point" => n.ball = fly(ball, ft)

\* The ball crossed a wall and was put back on it.
C7_Witness ==
    /\ state.tag = "WallBounce"
    /\ ball.pos[2] \in {0, WINDOW_HEIGHT - BALL_SIZE}

\* C9: in Playing a tick with no intent and a frame time of 0 changes
\* neither the position of the ball, nor that of a racket, nor a score.
C9_ZeroTickKeepsPositions ==
    state.tag = "Playing" =>
        LET n == After({}, 0, 1, 1)
        IN /\ n.ball.pos = ball.pos
           /\ n.rackets[1].pos = rackets[1].pos
           /\ n.rackets[2].pos = rackets[2].pos
           /\ n.scores = scores

\* A ball in play lies on a wall inside the slab of a racket: the tick of no
\* duration rebounds it and still moves nothing.
C9_Witness ==
    /\ state.tag = "Playing" /\ ball.pos[2] = 0
    /\ After({}, 0, 1, 1).state = RacketBounce

\* C10: in a Playing tick whose intents hold both Up(side) and Down(side) the
\* racket of side ends the tick where it started, wherever it stands and
\* whatever the frame time.
C10_UpDownCancel ==
    state.tag = "Playing" =>
        \A side \in Side, ft \in FrameTimes :
            \A inputs \in {i \in InputSets : Up(side) \in i /\ Down(side) \in i} :
                After(inputs, ft, 1, 1).rackets[Idx(side)].pos = rackets[Idx(side)].pos

\* In play, the left racket resting on the top bound, the right one on the
\* bottom bound.
C10_Witness ==
    /\ state.tag = "Playing"
    /\ rackets[1].pos[2] = 0
    /\ rackets[2].pos[2] = WINDOW_HEIGHT - RACKET_SIZE[2]

\* The racket a ball in state RacketBounce has just left: the rebound turned
\* the ball away from it.
HitRacket == IF ball.dir[1] > 0 THEN rackets[1] ELSE rackets[2]

\* Twice the height of the contact point (the centre of the overlap of the
\* ball and the racket) above the centre of the racket.
ContactOffset2 ==
    LET top == Max(ball.pos[2], HitRacket.pos[2])
        bottom == Min(ball.pos[2] + BALL_SIZE, HitRacket.pos[2] + RACKET_SIZE[2])
    IN (top + bottom) - (2 * HitRacket.pos[2] + RACKET_SIZE[2])

\* C8: after a racket rebound the vertical direction of the ball is the
\* offset of the contact point from the centre of the racket over half the
\* racket height: 0 for a contact at the centre, of magnitude 1 for a
\* contact at the top or bottom edge, never of magnitude above 1.
C8_ReboundAngle ==
    state.tag = "RacketBounce" =>
        /\ ball.dir[2] * RACKET_SIZE[2] = ContactOffset2 * DirOne
        /\ ContactOffset2 = 0 => ball.dir[2] = 0
        /\ Abs(ContactOffset2) = RACKET_SIZE[2] => Abs(ball.dir[2]) = DirOne
        /\ Abs(ball.dir[2]) <= DirOne

\* The ball touched the very top edge of the left racket and leaves at the
\* steepest angle upward.
C8_Witness ==
    /\ state.tag = "RacketBounce"
    /\ ball.dir[1] > 0
    /\ ball.pos[2] + BALL_SIZE = rackets[1].pos[2]
    /\ ball.dir[2] = -DirOne

\* The ball struck the exact centre of a racket and leaves horizontally.
C8_CentreStrike ==
    /\ state.tag = "RacketBounce"
    /\ ContactOffset2 = 0
    /\ ball.dir[2] = 0

\* C11: in every state each racket lies within [0, WINDOW_HEIGHT - racket
\* height], keeps its side and its horizontal position, and a tick changes
\* the height of a racket only if it starts in Playing or resets the match.
C11_RacketsInBounds ==
    /\ \A side \in Side :
          LET r == rackets[Idx(side)]
          IN /\ r.side = side
             /\ r.pos[1] = RacketNew(side).pos[1]
             /\ 0 <= r.pos[2]
             /\ r.pos[2] <= WINDOW_HEIGHT - RACKET_SIZE[2]
    /\ \A inputs \in InputSets, ft \in FrameTimes, rx \in Draws, ry \in Draws :
          LET n == After(inputs, ft, rx, ry)
          IN n.rackets # rackets
                => \/ state.tag = "Playing"
                   \/ /\ state.tag = "Winner"
                      /\ n.state = Playing
                      /\ n.scores = <<0, 0>>
                      /\ n.rackets = <<RacketNew("Left"), RacketNew("Right")>>

\* The right racket was driven against the top bound, the left one against
\* the bottom bound.
C11_Witness ==
    /\ rackets[2].pos[2] = 0
    /\ rackets[1].pos[2] = WINDOW_HEIGHT - RACKET_SIZE[2]

\* The states for which play_sounds requests a cue.
CueStates == {"WallBounce", "RacketBounce", "Point"}

\* C12: a frame requests a cue exactly when it ends in WallBounce,
\* RacketBounce or Point (the wall, racket or point sound), and every such
\* frame starts in Playing: the cue state is entered in that frame, so no two
\* successive frames request a cue, and a frame that ends in another state,
\* Exit included, requests none.
C12_CueOncePerEntry ==
    [][/\ state'.tag = "WallBounce" <=> cue' = "wall"
       /\ state'.tag = "RacketBounce" <=> cue' = "racket"
       /\ state'.tag = "Point" <=> cue' = "point"
       /\ state'.tag \notin CueStates <=> cue' = "none"
       /\ cue' # "none" => (state.tag = "Playing" /\ cue = "none")]_vars

\* The racket sound is requested for a frame that ended in RacketBounce.
C12_Witness == state.tag = "RacketBounce" /\ cue = "racket"

\* C13: in a Playing tick the court edges are tested first and end the
\* resolution: a ball that Ball::fly put beyond the left edge gives
\* Point(Right), beyond the right edge Point(Left), with the scores kept and
\* the ball left as it flew (no clamp, no change of direction), also when it
\* is beyond a wall; a ball inside the edges but beyond a wall gives
\* WallBounce and no racket rebound (dir.0 kept).
C13_EdgesBeforeWallsBeforeRackets ==
    state.tag = "Playing" =>
        \A inputs \in QuitFree, ft \in FrameTimes :
            LET b == fly(ball, ft)
                n == After(inputs, ft, 1, 1)
                outLeft == b.pos[1] < 0
                outRight == b.pos[1] + BALL_SIZE > WINDOW_WIDTH
            IN /\ outLeft => (n.state = Point("Right") /\ n.ball = b /\ n.scores = scores)
               /\ (~outLeft /\ outRight)
                      => (n.state = Point("Left") /\ n.ball = b /\ n.scores = scores)
               /\ (~outLeft /\ ~outRight /\ ~InsideVertically(b))
                      => /\ n.state = WallBounce
                         /\ n.ball.pos[1] = b.pos[1]
                         /\ n.ball.dir[1] = b.dir[1]
                         /\ InsideVertically(n.ball)
               /\ n.state.tag = "Point" => (outLeft \/ outRight)

\* The ball left the court through a corner: it is beyond an edge and beyond
\* a wall, in state Point.
C13_Witness ==
    /\ state.tag = "Point"
    /\ ~InsideVertically(ball)
    /\ (ball.pos[1] < 0 \/ ball.pos[1] + BALL_SIZE > WINDOW_WIDTH)

\* C14: a tick without Quit that starts in WallBounce or RacketBounce ends in
\* Playing and changes neither the ball (position, direction, speed), nor the
\* rackets, nor the scores, whatever the frame time and the intents.
C14_BounceTickIsIdle ==
    state.tag \in {"WallBounce", "RacketBounce"} =>
        \A inputs \in QuitFree, ft \in FrameTimes :
            LET n == After(inputs, ft, 1, 1)
            IN /\ n.state = Playing
               /\ n.ball = ball
               /\ n.rackets = rackets
               /\ n.scores = scores

\* Back in Playing after a bounce off the bottom wall: the ball still lies
\* on the wall and has turned upward.
C14_Witness ==
    /\ state.tag = "Playing"
    /\ ball.pos[2] = WINDOW_HEIGHT - BALL_SIZE
    /\ ball.dir[2] < 0

\* The ball b overlaps or touches the contact slab of racket.
OnSlab(b, racket) ==
    intersect(RacketRect(racket), Rect(b.pos[1], b.pos[2], BALL_SIZE, BALL_SIZE)) # NoRect

\* The ball b heads toward the racket of side.
Toward(b, side) == IF side = "Left" THEN b.dir[1] < 0 ELSE b.dir[1] > 0

\* C15: a rebound is taken from a racket only while the ball heads toward it
\* and leaves the ball heading away from it, and between two rebounds of a
\* round nothing else turns the ball horizontally (only a new ball sets
\* dir.0): two successive rebounds of a round are from opposite rackets.
C15_NoDoubleBounce ==
    [][/\ state'.tag = "RacketBounce"
             => \E side \in Side :
                   /\ OnSlab(ball', rackets'[Idx(side)])
                   /\ Toward(ball, side)
                   /\ ~Toward(ball', side)
       /\ ball'.dir[1] # ball.dir[1]
             => \/ state'.tag = "RacketBounce"
                \/ (state.tag \in {"NewRound", "Winner"} /\ ball'.speed = BALL_INIT_SPEED)]_vars

\* In play, the ball still on the slab of the left racket it has just left:
\* no second rebound follows.
C15_Witness ==
    /\ state.tag = "Playing"
    /\ OnSlab(ball, rackets[1])
    /\ ~Toward(ball, "Left")
    /\ After({}, 0, 1, 1).state = Playing

\* C16: a tick without Quit that starts in NewRound(side) ends in Playing
\* with a new ball at the centre of the court, at the initial speed, heading
\* toward side, and keeps the scores and the rackets.
C16_NewRoundServes ==
    state.tag = "NewRound" =>
        \A inputs \in QuitFree, ft \in FrameTimes, rx \in RndDir, ry \in RndDir :
            LET n == After(inputs, ft, rx, ry)
            IN /\ n.state = Playing
               /\ 2 * n.ball.pos[1] + BALL_SIZE = WINDOW_WIDTH
               /\ 2 * n.ball.pos[2] + BALL_SIZE = WINDOW_HEIGHT
               /\ n.ball.speed = BALL_INIT_SPEED
               /\ n.ball.dir[1] = IF state.side = "Left" THEN -DirOne ELSE DirOne
               /\ n.ball.dir[2] = ry * DirOne
               /\ n.scores = scores
               /\ n.rackets = rackets

\* Right scored the first point, NewRound(Left) was ticked: a new ball at
\* the centre heads left, the rackets where the players had moved them.
C16_Witness ==
    /\ state.tag = "Playing" /\ scores = <<0, 1>>
    /\ ball.pos = BallNew("Left", 1, 1).pos
    /\ ball.speed = BALL_INIT_SPEED /\ ball.dir[1] < 0
    /\ rackets # <<RacketNew("Left"), RacketNew("Right")>>

\* C17 as stated: in every state and for every intent set S, a tick with S
\* and an Unknown intent ends in the same state as a tick with S alone.
C17_UnknownIgnored ==
    \A inputs \in InputSets, ft \in FrameTimes, rx \in Draws, ry \in Draws :
        After(inputs \cup {Unknown}, ft, rx, ry) = After(inputs, ft, rx, ry)

\* The tick at now + ft finds the match in Winner with the hold passed.
HoldPassed(ft) == state.tag = "Winner" /\ (now + ft) - state.at > WIN_SCREEN_SECS

\* C17, amended: a tick with S and an Unknown intent ends in the same state
\* as a tick with S alone, except in Winner once the hold has passed and S is
\* empty: there the Unknown intent counts as a key press and resets the
\* match, while the empty set leaves it in Winner.
C17_UnknownIgnoredButInWinner ==
    \A inputs \in InputSets, ft \in FrameTimes, rx \in Draws, ry \in Draws :
        IF HoldPassed(ft) /\ inputs = {}
        THEN /\ After({Unknown}, ft, rx, ry) = reset(Self, rx, ry)
             /\ After({}, ft, rx, ry) = Self
        ELSE After(inputs \cup {Unknown}, ft, rx, ry) = After(inputs, ft, rx, ry)

\* The match stayed in Winner beyond the hold, no intent having come.
C17_Witness == state.tag = "Winner" /\ now - state.at > WIN_SCREEN_SECS

\* C18: from Exit, update with any intents and any frame time changes
\* nothing, and the loop of main has been left: no further frame runs, and
\* the frame that ended in Exit requested no cue.
C18_ExitIsTerminal ==
    state.tag = "Exit" =>
        /\ \A inputs \in InputSets, ft \in FrameTimes, rx \in RndDir, ry \in RndDir :
              After(inputs, ft, rx, ry) = Self
        /\ cue = "none"
        /\ ~ENABLED Next

\* The loop was left during the first frame that took time.
C18_Witness == state.tag = "Exit" /\ now = LagFt /\ scores = <<0, 0>>

PlayStates == {"NewRound", "Playing", "WallBounce", "RacketBounce", "Point"}

\* C19: both scores lie in 0..WIN_SCORE and at most one is WIN_SCORE; in
\* Winner(side) the score of side is WIN_SCORE and the other is below; in
\* NewRound, Playing, WallBounce, RacketBounce and Point both are below; and
\* a Quit from one of those five states leaves for Exit with both below, so
\* an Exit with a score of WIN_SCORE comes from Winner.
C19_ScoresWithinWinScore ==
    /\ \A i \in {1, 2} : scores[i] \in 0..WIN_SCORE
    /\ ~(scores[1] = WIN_SCORE /\ scores[2] = WIN_SCORE)
    /\ state.tag = "Winner"
          => /\ scores[Idx(state.side)] = WIN_SCORE
             /\ scores[Idx(toggle(state.side))] < WIN_SCORE
    /\ state.tag \in PlayStates
          => /\ scores[1] < WIN_SCORE /\ scores[2] < WIN_SCORE
             /\ \A inputs \in InputSets \ QuitFree, ft \in FrameTimes :
                   LET n == After(inputs, ft, 1, 1)
                   IN n.state = Exit /\ n.scores = scores
    /\ state.tag \notin PlayStates => state.tag \in {"Winner", "Exit"}

\* The game was quit on the winner screen of Right, its score at WIN_SCORE.
C19_Witness == state.tag = "Exit" /\ scores[2] = WIN_SCORE /\ scores[1] < WIN_SCORE

InsideHorizontally(b) == 0 <= b.pos[1] /\ b.pos[1] + BALL_SIZE <= WINDOW_WIDTH

\* C20 as stated: in Playing, WallBounce and RacketBounce the ball lies
\* inside the court on both axes, and a ball beyond a court edge is seen in
\* state Point alone.
C20_BallOutOnlyInPoint ==
    /\ state.tag \in {"Playing", "WallBounce", "RacketBounce"}
          => (InsideHorizontally(ball) /\ InsideVertically(ball))
    /\ ~InsideHorizontally(ball) => state.tag = "Point"

\* C20, amended: in Playing, WallBounce and RacketBounce the ball lies inside
\* the court on both axes; a ball beyond a court edge is seen in Point and in
\* the states that follow it before a new ball is made (NewRound, Winner, and
\* Exit after a Quit in one of these), and the tick that goes back to Playing
\* from NewRound or Winner makes a new ball at the centre.
C20_BallInsideInPlay ==
    /\ state.tag \in {"Playing", "WallBounce", "RacketBounce"}
          => (InsideHorizontally(ball) /\ InsideVertically(ball))
    /\ ~InsideHorizontally(ball) => state.tag \in {"Point", "NewRound", "Winner", "Exit"}
    /\ state.tag \in {"NewRound", "Winner"}
          => \A inputs \in QuitFree, ft \in FrameTimes, rx \in RndDir, ry \in RndDir :
                LET n == After(inputs, ft, rx, ry)
                IN n.state.tag = "Playing"
                      => n.ball \in {BallNew(s, rx, ry) : s \in Side \cup {NoSide}}

\* The point is scored and the next round announced, the ball still lying
\* beyond the court edge.
C20_Witness == state.tag = "NewRound" /\ ~InsideHorizontally(ball)

====
